---------------------------- MODULE Spec2Model ----------------------------
(***************************************************************************)
(* Model of openquake/server/views.py: the job submission handler          *)
(* (run_calc / submit_job / _prepare_job), the soft-delete handler         *)
(* (calc_remove), the export handler (get_result), the log and traceback   *)
(* handlers (get_log_slice, get_log_size, get_traceback) and the job views *)
(* (calc, calc_info), together with the worker pool and the store they     *)
(* talk to.                                                                *)
(*                                                                         *)
(* Each handler is synchronous: it serves one request at a time and is     *)
(* free again once its response has been returned.  The worker pool and    *)
(* the engine run concurrently with the handlers.  There is one            *)
(* specification per handler or group of read-only handlers.               *)
(***************************************************************************)
EXTENDS Integers, Sequences, FiniteSets, TLC

VARIABLES
    jobs,      \* the OqJob table: jobs[id] = [status, relevant]; the columns
               \* only the listing reads (user_name, hazard_calculation,
               \* is_running) are kept in the specification of the listing
    outputs,   \* the Output table: outputs[id] = [oq_job, output_type]
    tasks,     \* the worker pool queue: tasks[i] = [job, temp_dir, state]
    dirs,      \* temporary directories that exist on disk
    nextDir,   \* the next directory tempfile.mkdtemp will create
    rc,        \* the run_calc request in flight / its last response
    cr,        \* the calc_remove request in flight / its last response
    gr,        \* the last get_result request and its response
    params,    \* the JobParam rows named description, in id order:
               \* params[k] = [job, value]
    logs,      \* the Log table in id order: logs[k] = [job, level, message]
    lr,        \* the last log or traceback request and its response
    cl,        \* a client reading the log of a job slice by slice
    ls         \* the last job listing or job view request and its response

\* the state of the read-only handlers and of the tables only they read
readvars == <<params, logs, lr, cl, ls>>

vars == <<jobs, outputs, tasks, dirs, nextDir, rc, cr, gr, readvars>>

-----------------------------------------------------------------------------
(* Bounds of the model *)

MaxJobs == 2     \* jobs the loader may create
MaxDirs == 4     \* directories mkdtemp may create
MaxFiles == 2    \* uploaded files (or archive members) per submission

-----------------------------------------------------------------------------
(* Values *)

None == "None"   \* Python's None (a missing request parameter)

\* Python truthiness of an optional string parameter
Truthy(v) == v # None /\ v # ""

DEFAULT_EXPORT_TYPE == "xml"
DEFAULT_CONTENT_TYPE == "text/plain"

EXPORT_CONTENT_TYPE_MAP(t) ==
    CASE t = "xml" -> "application/xml"
      [] t = "geojson" -> "application/json"
      [] OTHER -> DEFAULT_CONTENT_TYPE

FileNames == {"job.ini", "job_hazard.ini", "job_risk.ini"}
\* values of (hazard_output_id, hazard_job_id)
HazardIds == {<<None, None>>, <<"", None>>, <<"1", None>>, <<None, "1">>}
CallbackUrls == {None, "http://cb"}
ExportTypes == {None, "", "xml", "geojson", "nosuch"}
Dloads == {None, "true", "false"}
OutputTypes == {"hazard_curve"}

\* sequences of distinct file names, at most MaxFiles long
RECURSIVE Uploads(_)
Uploads(n) ==
    IF n = 0 THEN {<<>>}
    ELSE LET shorter == Uploads(n - 1)
         IN  shorter \cup
             {Append(s, f) : s \in {t \in shorter : Len(t) = n - 1}, f \in FileNames}

DistinctUploads == {s \in Uploads(MaxFiles) :
                       \A i, j \in DOMAIN s : i # j => s[i] # s[j]}

Range(s) == {s[i] : i \in DOMAIN s}

Rank(status) ==
    CASE status = "pending" -> 0
      [] status = "executing" -> 1
      [] OTHER -> 2


-----------------------------------------------------------------------------
(* Requests *)

IdleRc ==
    [pc |-> "idle", callback_url |-> None, hazard_output_id |-> None,
     hazard_job_id |-> None, database |-> None, files |-> <<>>,
     archive |-> FALSE, candidates |-> <<>>, inifiles |-> <<>>,
     staged |-> "none", loader |-> "none", temp_dir |-> 0, created |-> {}, job |-> 0,
     tasks0 |-> 0, jobs0 |-> 0, events |-> <<>>, status |-> 0, body_kind |-> "none",
     body_candidates |-> <<>>, body_status |-> "none"]

IdleCr ==
    [pc |-> "idle", calc_id |-> 0, job |-> [status |-> "none", relevant |-> FALSE],
     status |-> 0, body |-> "none"]

IdleGr ==
    [pc |-> "idle", result_id |-> 0, etype |-> None, dload |-> None,
     output_found |-> FALSE, job_status |-> "none", nextDir0 |-> 0,
     exporter |-> "none", tmpdir |-> 0, export_called |-> FALSE,
     raised |-> FALSE, status |-> 0, body |-> "none",
     msg_export_type |-> None, msg_output_type |-> None,
     content_type |-> None, disposition |-> "none"]

-----------------------------------------------------------------------------
(* tasks.update_calculation: notifies the callback URL, if one was given *)

update_calculation(callback_url, status) ==
    IF callback_url = None THEN <<>>
    ELSE <<[ev |-> "callback", url |-> callback_url, status |-> status]>>

CallUpdateCalculation(callback_url, status) ==
    <<[ev |-> "update_calculation", url |-> callback_url, status |-> status]>>
        \o update_calculation(callback_url, status)

-----------------------------------------------------------------------------
(* _prepare_job *)

Path(d, f) == [dir |-> d, name |-> f]

dirname(p) == p.dir

\* the paths of s whose name is one of the candidates, in the order of s
RECURSIVE MatchingPaths(_, _, _)
MatchingPaths(s, cands, d) ==
    IF s = <<>> THEN <<>>
    ELSE (IF Head(s) \in Range(cands) THEN <<Path(d, Head(s))>> ELSE <<>>)
             \o MatchingPaths(Tail(s), cands, d)

Perms(s) ==
    {p \in [DOMAIN s -> Range(s)] : \A i, j \in DOMAIN s : i # j => p[i] # p[j]}

\* readinput.extract_from_zip: extracts the archive into a new directory and
\* returns the members named in candidates, in directory-listing order
extract_from_zip(members, cands, d) ==
    {[exc |-> TRUE, value |-> <<>>, created |-> {d}]}
    \cup {[exc |-> FALSE, value |-> p, created |-> {d}] :
              p \in Perms(MatchingPaths(members, cands, d))}

\* the outcomes of _prepare_job under safely_call: exc says whether it raised,
\* value is the returned list, created the directories it has made
prepare_job(files, archive, cands, d) ==
    {[exc |-> TRUE, value |-> <<>>, created |-> {}]}        \* mkdtemp fails
    \cup
    IF ~archive
    THEN {[exc |-> FALSE, value |-> MatchingPaths(files, cands, d),
           created |-> {d}]}
         \cup {[exc |-> TRUE, value |-> <<>>, created |-> {d}] :
                   k \in DOMAIN files}                       \* a move fails
    ELSE {[r EXCEPT !.created = {d} \cup r.created] :
              r \in extract_from_zip(files, cands, d + 1)}

-----------------------------------------------------------------------------
(* run_calc, up to the staging of the uploaded files *)

is_risk(hazard_output_id, hazard_job_id) ==
    Truthy(hazard_output_id) \/ Truthy(hazard_job_id)

candidates(hazard_output_id, hazard_job_id) ==
    IF is_risk(hazard_output_id, hazard_job_id)
    THEN <<"job_risk.ini", "job.ini">>
    ELSE <<"job_hazard.ini", "job.ini">>

on_staging_failure_silent(callback_url) ==
    [events |-> <<>>, status |-> 500, body_kind |-> "einfo_lines",
     body_candidates |-> <<>>]

\* lines 283-286: the staging raised
on_staging_failure(callback_url) ==
    [events |-> CallUpdateCalculation(callback_url, "failed"),
     status |-> 500, body_kind |-> "einfo_lines", body_candidates |-> <<>>]

on_no_candidates_plain(cands) ==
    [events |-> <<>>, status |-> 500, body_kind |-> "no_file_msg",
     body_candidates |-> <<>>]

\* lines 287-291: the staging returned an empty list
on_no_candidates(cands) ==
    [events |-> <<>>, status |-> 500, body_kind |-> "no_file_msg",
     body_candidates |-> cands]

RunCalcStage ==
    /\ rc.pc = "idle"
    /\ Len(jobs) < MaxJobs
    /\ \E cb \in CallbackUrls, hz \in HazardIds, files \in DistinctUploads,
          arch \in BOOLEAN :
         LET ho == hz[1]
             hj == hz[2]
             cands == candidates(ho, hj)
             req == [IdleRc EXCEPT !.callback_url = cb,
                                   !.hazard_output_id = ho,
                                   !.hazard_job_id = hj,
                                   !.files = files, !.archive = arch,
                                   !.candidates = cands,
                                   !.tasks0 = Len(tasks),
                                   !.jobs0 = Len(jobs)]
         IN  \E res \in prepare_job(files, arch, cands, nextDir) :
               /\ \A d \in res.created : d <= MaxDirs
               /\ dirs' = dirs \cup res.created
               /\ nextDir' = nextDir + Cardinality(res.created)
               /\ IF res.exc
                  THEN LET f == on_staging_failure(cb)
                       IN  rc' = [req EXCEPT !.pc = "done",
                                    !.staged = "raised",
                                    !.created = res.created,
                                    !.events = f.events,
                                    !.status = f.status,
                                    !.body_kind = f.body_kind]
                  ELSE IF res.value = <<>>
                  THEN LET f == on_no_candidates(cands)
                       IN  rc' = [req EXCEPT !.pc = "done",
                                    !.staged = "empty",
                                    !.created = res.created,
                                    !.events = f.events,
                                    !.status = f.status,
                                    !.body_kind = f.body_kind,
                                    !.body_candidates = f.body_candidates]
                  ELSE rc' = [req EXCEPT !.pc = "staged",
                                !.staged = "ok",
                                !.created = res.created,
                                !.inifiles = res.value,
                                !.temp_dir = dirname(res.value[1])]
    /\ UNCHANGED <<jobs, outputs, tasks, cr, gr, readvars>>

-----------------------------------------------------------------------------
(* submit_job and the rest of run_calc *)

\* oq_engine.job_from_file under safely_call: a new job record, or a failure
\* that creates no job
job_from_file(js, loader) ==
    IF loader = "ok"
    THEN [exc |-> FALSE, jobs |-> Append(js, [status |-> "pending", relevant |-> TRUE]),
          id |-> Len(js) + 1]
    ELSE [exc |-> TRUE, jobs |-> js, id |-> 0]

executor_submit_twice(q, job_id, temp_dir) ==
    q \o <<[job |-> job_id, temp_dir |-> temp_dir, state |-> "queued"],
           [job |-> job_id, temp_dir |-> temp_dir, state |-> "queued"]>>

\* executor.submit(tasks.safely_call, tasks.run_calc, job.id, temp_dir, ...)
executor_submit(q, job_id, temp_dir) ==
    Append(q, [job |-> job_id, temp_dir |-> temp_dir, state |-> "queued"])

submit_job_no_notify(temp_dir, callback_url, loader, js, q) ==
    LET l == job_from_file(js, loader)
    IN  IF l.exc
        THEN [raised |-> TRUE,
              events |-> <<[ev |-> "job_from_file", url |-> None, status |-> "failed"],
                           [ev |-> "raise", url |-> None, status |-> "failed"]>>,
              jobs |-> l.jobs, tasks |-> q, job |-> 0]
        ELSE [raised |-> FALSE,
              events |-> <<[ev |-> "job_from_file", url |-> None, status |-> "ok"],
                           [ev |-> "executor.submit", url |-> None, status |-> "ok"]>>,
              jobs |-> l.jobs, tasks |-> executor_submit(q, l.id, temp_dir),
              job |-> l.id]

\* lines 323-334: what submit_job does to the store and the queue, the calls it
\* makes in order, and whether it raises
submit_job(temp_dir, callback_url, loader, js, q) ==
    LET l == job_from_file(js, loader)
    IN  IF l.exc
        THEN [raised |-> TRUE,
              events |-> <<[ev |-> "job_from_file", url |-> None, status |-> "failed"]>>
                           \o CallUpdateCalculation(callback_url, "failed")
                           \o <<[ev |-> "raise", url |-> None, status |-> "failed"]>>,
              jobs |-> l.jobs, tasks |-> q, job |-> 0]
        ELSE [raised |-> FALSE,
              events |-> <<[ev |-> "job_from_file", url |-> None, status |-> "ok"],
                           [ev |-> "executor.submit", url |-> None, status |-> "ok"]>>,
              jobs |-> l.jobs, tasks |-> executor_submit(q, l.id, temp_dir),
              job |-> l.id]

\* lines 297-304
RunCalcSubmit ==
    /\ rc.pc = "staged"
    /\ \E db \in {None, "platform"} :
         IF db = None
         THEN \* request.POST['database'] raises before submit_job is entered
              /\ rc' = [rc EXCEPT !.pc = "done", !.status = 500,
                                  !.body_kind = "exc_lines"]
              /\ UNCHANGED <<jobs, tasks>>
         ELSE \E loader \in {"ok", "fail"} :
                LET sj == submit_job(rc.temp_dir, rc.callback_url, loader,
                                     jobs, tasks)
                IN  /\ jobs' = sj.jobs
                    /\ tasks' = sj.tasks
                    /\ IF sj.raised
                       THEN rc' = [rc EXCEPT !.pc = "done", !.status = 500,
                                       !.database = db, !.loader = "raised",
                                       !.events = sj.events,
                                       !.body_kind = "exc_lines"]
                       ELSE rc' = [rc EXCEPT !.pc = "submitted",
                                       !.database = db, !.loader = "ok",
                                       !.events = sj.events,
                                       !.job = sj.job]
    /\ UNCHANGED <<outputs, dirs, nextDir, cr, gr, readvars>>

\* lines 306-312: the job is read again from the store
RunCalcRespond ==
    /\ rc.pc = "submitted"
    /\ LET calc == jobs[rc.job]
       IN  rc' = [rc EXCEPT !.pc = "done", !.status = 200,
                            !.body_kind = "oqparam",
                            !.body_status = calc.status]
    /\ UNCHANGED <<jobs, outputs, tasks, dirs, nextDir, cr, gr, readvars>>

\* the response has been returned and the handler serves the next request
RunCalcReturn ==
    /\ rc.pc = "done"
    /\ rc' = IdleRc
    /\ UNCHANGED <<jobs, outputs, tasks, dirs, nextDir, cr, gr, readvars>>

-----------------------------------------------------------------------------
(* The worker pool running tasks.run_calc, and the engine *)

MaxOutputs == 2

WorkerStart ==
    \E i \in DOMAIN tasks :
      /\ tasks[i].state = "queued"
      /\ tasks' = [tasks EXCEPT ![i].state = "running"]
      /\ jobs' = [jobs EXCEPT ![tasks[i].job].status = "executing"]
      /\ UNCHANGED <<outputs, dirs, nextDir, rc, cr, gr, readvars>>

EngineAddOutput ==
    \E i \in DOMAIN tasks, t \in OutputTypes :
      /\ tasks[i].state = "running"
      /\ Len(outputs) < MaxOutputs
      /\ outputs' = Append(outputs, [oq_job |-> tasks[i].job, output_type |-> t])
      /\ UNCHANGED <<jobs, tasks, dirs, nextDir, rc, cr, gr, readvars>>

WorkerFinish ==
    \E i \in DOMAIN tasks, final \in {"complete", "failed"} :
      /\ tasks[i].state = "running"
      /\ tasks' = [tasks EXCEPT ![i].state = "done"]
      /\ jobs' = [jobs EXCEPT ![tasks[i].job].status = final]
      /\ dirs' = dirs \ {tasks[i].temp_dir}
      /\ UNCHANGED <<outputs, nextDir, rc, cr, gr, readvars>>

-----------------------------------------------------------------------------
(* calc_remove *)

JobIds == 1..(MaxJobs + 1)

save_nothing(js, id, record) == js

\* job.save(): every field of the record read earlier is written back
save(js, id, record) == [js EXCEPT ![id] = record]

\* lines 208-211
CalcRemoveRead ==
    /\ cr.pc = "idle"
    /\ \E calc_id \in JobIds :
         IF calc_id \in DOMAIN jobs
         THEN cr' = [IdleCr EXCEPT !.pc = "read", !.calc_id = calc_id,
                                   !.job = jobs[calc_id]]
         ELSE cr' = [IdleCr EXCEPT !.pc = "done", !.calc_id = calc_id,
                                   !.status = 404]
    /\ UNCHANGED <<jobs, outputs, tasks, dirs, nextDir, rc, gr, readvars>>

\* lines 212-222
CalcRemoveSave ==
    /\ cr.pc = "read"
    /\ \E store \in {"ok", "fail"} :
         IF store = "ok"
         THEN /\ jobs' = save(jobs, cr.calc_id, [cr.job EXCEPT !.relevant = FALSE])
              /\ cr' = [cr EXCEPT !.pc = "done", !.status = 200, !.body = "[]"]
         ELSE /\ jobs' = jobs
              /\ cr' = [cr EXCEPT !.pc = "done", !.status = 500,
                                  !.body = "traceback_lines"]
    /\ UNCHANGED <<outputs, tasks, dirs, nextDir, rc, gr, readvars>>

CalcRemoveReturn ==
    /\ cr.pc = "done"
    /\ cr' = IdleCr
    /\ UNCHANGED <<jobs, outputs, tasks, dirs, nextDir, rc, gr, readvars>>

-----------------------------------------------------------------------------
(* get_result *)

ResultIds == 1..(MaxOutputs + 1)

result_available_any_status(result_id, outs, js) ==
    result_id \in DOMAIN outs

\* lines 459-465: the output exists and its job is complete
result_available(result_id, outs, js) ==
    /\ result_id \in DOMAIN outs
    /\ js[outs[result_id].oq_job].status = "complete"

export_type_raw(etype) == etype

\* line 468
export_type(etype) == IF Truthy(etype) THEN etype ELSE DEFAULT_EXPORT_TYPE

download_only_if_asked(etype, dload) == dload = "true"

\* lines 470-477
download(etype, dload) ==
    IF dload = None THEN etype # None ELSE dload = "true"

\* lines 479-498: the directories left on disk when get_result is over, given
\* what the exporter did and whether the exported file could be read
dirs_after_export(ds, tmpdir, exporter) ==
    CASE exporter = "none" -> ds \cup {tmpdir}         \* return at line 483
      [] exporter = "raise" -> ds \cup {tmpdir}        \* core.export raised
      [] OTHER -> (ds \cup {tmpdir}) \ {tmpdir}        \* finally: rmtree

GetResult ==
    /\ gr.pc = "idle"
    /\ \E result_id \in ResultIds, etype \in ExportTypes, dload \in Dloads :
         LET found == result_id \in DOMAIN outputs
             req == [IdleGr EXCEPT !.pc = "done", !.result_id = result_id,
                        !.etype = etype, !.dload = dload,
                        !.output_found = found,
                        !.job_status =
                            IF found THEN jobs[outputs[result_id].oq_job].status
                            ELSE "none",
                        !.nextDir0 = nextDir]
         IN  IF ~result_available(result_id, outputs, jobs)
             THEN /\ gr' = [req EXCEPT !.status = 404]
                  /\ UNCHANGED <<dirs, nextDir>>
             ELSE /\ nextDir <= MaxDirs
                  /\ nextDir' = nextDir + 1
                  /\ \E exporter \in {"none", "raise", "path", "unreadable"} :
                       /\ dirs' = dirs_after_export(dirs, nextDir, exporter)
                       /\ gr' =
                           CASE exporter = "none" ->
                                  [req EXCEPT !.exporter = exporter,
                                      !.tmpdir = nextDir, !.export_called = TRUE,
                                      !.status = 404, !.body = "not_supported_msg",
                                      !.msg_export_type = export_type(etype),
                                      !.msg_output_type = outputs[result_id].output_type]
                             [] exporter \in {"raise", "unreadable"} ->
                                  [req EXCEPT !.exporter = exporter,
                                      !.tmpdir = nextDir, !.export_called = TRUE,
                                      !.raised = TRUE]
                             [] OTHER ->
                                  [req EXCEPT !.exporter = exporter,
                                      !.tmpdir = nextDir, !.export_called = TRUE,
                                      !.status = 200, !.body = "data",
                                      !.content_type =
                                          EXPORT_CONTENT_TYPE_MAP(export_type(etype)),
                                      !.disposition =
                                          IF download(etype, dload)
                                          THEN "attachment" ELSE "inline"]
    /\ UNCHANGED <<jobs, outputs, tasks, rc, cr, readvars>>

GetResultReturn ==
    /\ gr.pc = "done"
    /\ gr' = IdleGr
    /\ UNCHANGED <<jobs, outputs, tasks, dirs, nextDir, rc, cr, readvars>>

-----------------------------------------------------------------------------
(* get_log_slice, get_log_size and get_traceback *)

MaxLogs == 4     \* rows of the Log table

\* a (\d*) group of the URL: <<>> is the empty string, <<n>> the digits of n
UrlInts == {<<>>} \cup {<<n>> : n \in 0..(MaxLogs \div 2)}

IdleLr ==
    [pc |-> "idle", op |-> "none", calc_id |-> 0, job_exists |-> FALSE,
     ncritical |-> 0, status |-> 0, raised |-> FALSE, body |-> <<>>,
     count |-> 0]

IdleCl ==
    [pc |-> "idle", calc_id |-> 0, n |-> 0, len0 |-> 0,
     r1 |-> <<>>, r2 |-> <<>>, r3 |-> <<>>]

\* the engine writes a row of the log of a job
EngineLog(level) ==
    /\ Len(logs) < MaxLogs
    /\ \E j \in DOMAIN jobs :
         logs' = Append(logs, [job |-> j, timestamp |-> Len(logs) + 1,
                               level |-> level, process |-> "worker",
                               message |-> <<Len(logs) + 1, 0>>])

EngineLogProgress ==
    /\ EngineLog("INFO")
    /\ UNCHANGED <<jobs, outputs, tasks, dirs, nextDir, rc, cr, gr,
                   params, lr, cl, ls>>

EngineLogCritical ==
    /\ EngineLog("CRITICAL")
    /\ UNCHANGED <<jobs, outputs, tasks, dirs, nextDir, rc, cr, gr,
                   params, lr, cl, ls>>

\* Log.objects.filter(job_id=calc_id): the rows of the job, in storage order
RECURSIVE log_rows(_, _)
log_rows(ls_, calc_id) ==
    IF ls_ = <<>> THEN <<>>
    ELSE (IF Head(ls_).job = calc_id THEN <<Head(ls_)>> ELSE <<>>)
             \o log_rows(Tail(ls_), calc_id)

\* lines 225-228
log_to_json(log) == <<log.timestamp, log.level, log.process, log.message>>

\* rows[start:stop] of Python, stop = <<>> being None
PySlice(rows, start, stop) ==
    LET hi == IF stop = <<>> \/ stop[1] > Len(rows) THEN Len(rows) ELSE stop[1]
    IN  [i \in 1..(IF hi > start THEN hi - start ELSE 0) |-> rows[start + i]]

get_log_slice_inclusive(ls_, calc_id, start, stop) ==
    LET rows == PySlice(log_rows(ls_, calc_id),
                        IF start = <<>> THEN 0 ELSE start[1],
                        IF stop = <<>> THEN <<>> ELSE <<stop[1] + 1>>)
    IN  [status |-> 200,
         body |-> [i \in DOMAIN rows |-> log_to_json(rows[i])]]

\* lines 237-244: a digit string, "0" included, is true, so only the empty
\* string is replaced; filter and the slice never raise ObjectDoesNotExist
get_log_slice(ls_, calc_id, start, stop) ==
    LET rows == PySlice(log_rows(ls_, calc_id),
                        IF start = <<>> THEN 0 ELSE start[1],
                        stop)
    IN  [status |-> 200,
         body |-> [i \in DOMAIN rows |-> log_to_json(rows[i])]]

\* lines 253-257: filter and count never raise ObjectDoesNotExist
get_log_size(ls_, calc_id) ==
    [status |-> 200, count |-> Len(log_rows(ls_, calc_id))]

\* message.splitlines(): a message is kept as the sequence of its lines
splitlines(message) == message

\* the rows Log.objects.get(job_id=calc_id, level='CRITICAL') chooses from
critical_rows(ls_, calc_id) ==
    SelectSeq(log_rows(ls_, calc_id), LAMBDA l : l.level = "CRITICAL")

\* lines 423-430: Log.objects.get raises, outside the try, unless exactly one
\* row matches
get_traceback(js, ls_, calc_id) ==
    IF calc_id \notin DOMAIN js
    THEN [status |-> 404, raised |-> FALSE, body |-> <<>>]
    ELSE LET crit == critical_rows(ls_, calc_id)
         IN  IF Len(crit) = 1
             THEN [status |-> 200, raised |-> FALSE,
                   body |-> splitlines(crit[1].message)]
             ELSE [status |-> 0, raised |-> TRUE, body |-> <<>>]

GetLogSlice ==
    /\ lr.pc = "idle"
    /\ cl.pc = "idle"
    /\ \E calc_id \in JobIds, start \in UrlInts, stop \in UrlInts :
         LET r == get_log_slice(logs, calc_id, start, stop)
         IN  lr' = [IdleLr EXCEPT !.pc = "done", !.op = "get_log_slice",
                       !.calc_id = calc_id,
                       !.job_exists = calc_id \in DOMAIN jobs,
                       !.status = r.status, !.body = r.body]
    /\ UNCHANGED <<jobs, outputs, tasks, dirs, nextDir, rc, cr, gr,
                   params, logs, cl, ls>>

GetLogSize ==
    /\ lr.pc = "idle"
    /\ cl.pc = "idle"
    /\ \E calc_id \in JobIds :
         LET r == get_log_size(logs, calc_id)
         IN  lr' = [IdleLr EXCEPT !.pc = "done", !.op = "get_log_size",
                       !.calc_id = calc_id,
                       !.job_exists = calc_id \in DOMAIN jobs,
                       !.status = r.status, !.count = r.count]
    /\ UNCHANGED <<jobs, outputs, tasks, dirs, nextDir, rc, cr, gr,
                   params, logs, cl, ls>>

GetTraceback ==
    /\ lr.pc = "idle"
    /\ \E calc_id \in JobIds :
         LET r == get_traceback(jobs, logs, calc_id)
         IN  lr' = [IdleLr EXCEPT !.pc = "done", !.op = "get_traceback",
                       !.calc_id = calc_id,
                       !.job_exists = calc_id \in DOMAIN jobs,
                       !.ncritical = Len(critical_rows(logs, calc_id)),
                       !.status = r.status, !.raised = r.raised,
                       !.body = r.body]
    /\ UNCHANGED <<jobs, outputs, tasks, dirs, nextDir, rc, cr, gr,
                   params, logs, cl, ls>>

LogReturn ==
    /\ lr.pc = "done"
    /\ lr' = IdleLr
    /\ UNCHANGED <<jobs, outputs, tasks, dirs, nextDir, rc, cr, gr,
                   params, logs, cl, ls>>

\* a client reads the first 2n rows of a log with at least 2n rows in two
\* requests, and then in one; the handlers serve one request at a time
ClientFirst ==
    /\ cl.pc = "idle"
    /\ lr.pc = "idle"
    /\ \E calc_id \in DOMAIN jobs, n \in 0..(MaxLogs \div 2) :
         /\ Len(log_rows(logs, calc_id)) >= 2 * n
         /\ cl' = [IdleCl EXCEPT !.pc = "first", !.calc_id = calc_id, !.n = n,
                      !.len0 = Len(logs),
                      !.r1 = get_log_slice(logs, calc_id, <<0>>, <<n>>).body]
    /\ UNCHANGED <<jobs, outputs, tasks, dirs, nextDir, rc, cr, gr,
                   params, logs, lr, ls>>

ClientSecond ==
    /\ cl.pc = "first"
    /\ cl' = [cl EXCEPT !.pc = "second",
                 !.r2 = get_log_slice(logs, cl.calc_id, <<cl.n>>,
                                      <<2 * cl.n>>).body]
    /\ UNCHANGED <<jobs, outputs, tasks, dirs, nextDir, rc, cr, gr,
                   params, logs, lr, ls>>

ClientWhole ==
    /\ cl.pc = "second"
    /\ cl' = [cl EXCEPT !.pc = "whole",
                 !.r3 = get_log_slice(logs, cl.calc_id, <<0>>,
                                      <<2 * cl.n>>).body]
    /\ UNCHANGED <<jobs, outputs, tasks, dirs, nextDir, rc, cr, gr,
                   params, logs, lr, ls>>

ClientDone ==
    /\ cl.pc = "whole"
    /\ cl' = IdleCl
    /\ UNCHANGED <<jobs, outputs, tasks, dirs, nextDir, rc, cr, gr,
                   params, logs, lr, ls>>

-----------------------------------------------------------------------------
(* calc, _get_calcs and calc_info *)

Users == {"alice", "bob"}

\* the values of a flag in the query string
Flags == {None, "true", "false"}

\* the job rows the listing may find: a job is pending, running, complete or
\* removed, belongs to a user, and is a risk job when it has a hazard calculation
JobRows ==
    {[status |-> f[1], is_running |-> f[2], relevant |-> f[3],
      user_name |-> u, hazard_calculation |-> h] :
        f \in {<<"pending", FALSE, TRUE>>, <<"executing", TRUE, TRUE>>,
               <<"complete", FALSE, TRUE>>, <<"complete", FALSE, FALSE>>},
        u \in Users, h \in {None, "1"}}

IdleLs ==
    [pc |-> "idle", op |-> "none", user_name |-> None, id |-> 0,
     get |-> [job_type |-> None, is_running |-> None, relevant |-> None],
     status |-> 0, raised |-> FALSE, body |-> <<>>]

\* OqJob.job_type
job_type_of(job) == IF job.hazard_calculation = None THEN "hazard" ELSE "risk"

\* valid.boolean
boolean(v) == v = "true"

Reverse(s) == [i \in DOMAIN s |-> s[Len(s) + 1 - i]]

\* lines 337-363: the description rows of the user's jobs, latest row first,
\* narrowed by id (0 standing for None) and by each parameter that was sent
get_calcs(request_get, user_name, id, js, ps) ==
    LET keep(jp) ==
            /\ js[jp.job].user_name = user_name
            /\ id # 0 => jp.job = id
            /\ request_get.job_type # None =>
                 (js[jp.job].hazard_calculation = None)
                     = (request_get.job_type = "hazard")
            /\ request_get.is_running # None =>
                 js[jp.job].is_running = boolean(request_get.is_running)
            /\ request_get.relevant # None =>
                 js[jp.job].relevant = boolean(request_get.relevant)
        rows == SelectSeq(Reverse(ps), keep)
    IN  [i \in DOMAIN rows |->
            [id |-> rows[i].job, status |-> js[rows[i].job].status,
             job_type |-> job_type_of(js[rows[i].job]),
             is_running |-> js[rows[i].job].is_running,
             description |-> rows[i].value]]

\* lines 180-198: with an id, the list is unpacked as a list of one element,
\* which raises ValueError for any other length
calc(request_get, user_name, id, js, ps) ==
    LET response_data == get_calcs(request_get, user_name, id, js, ps)
    IN  IF id # 0 /\ Len(response_data) # 1
        THEN [status |-> 0, raised |-> TRUE, body |-> <<>>]
        ELSE [status |-> 200, raised |-> FALSE, body |-> response_data]

\* lines 156-167
calc_info(js, calc_id) ==
    IF calc_id \notin DOMAIN js
    THEN [status |-> 404, raised |-> FALSE, body |-> <<>>]
    ELSE [status |-> 200, raised |-> FALSE,
          body |-> <<[id |-> calc_id, status |-> js[calc_id].status,
                      job_type |-> job_type_of(js[calc_id]),
                      is_running |-> js[calc_id].is_running,
                      description |-> calc_id]>>]

\* calc without an id
CalcList ==
    /\ ls.pc = "idle"
    /\ \E user_name \in Users, jt \in {None, "hazard", "risk"},
          running \in Flags, relevant \in Flags :
         LET get == [job_type |-> jt, is_running |-> running,
                     relevant |-> relevant]
             r == calc(get, user_name, 0, jobs, params)
         IN  ls' = [IdleLs EXCEPT !.pc = "done", !.op = "calc",
                       !.user_name = user_name, !.get = get,
                       !.status = r.status, !.raised = r.raised,
                       !.body = r.body]
    /\ UNCHANGED <<jobs, outputs, tasks, dirs, nextDir, rc, cr, gr,
                   params, logs, lr, cl>>

\* calc with an id
CalcById ==
    /\ ls.pc = "idle"
    /\ \E user_name \in Users, id \in JobIds :
         LET r == calc(IdleLs.get, user_name, id, jobs, params)
         IN  ls' = [IdleLs EXCEPT !.pc = "done", !.op = "calc_by_id",
                       !.user_name = user_name, !.id = id,
                       !.status = r.status, !.raised = r.raised,
                       !.body = r.body]
    /\ UNCHANGED <<jobs, outputs, tasks, dirs, nextDir, rc, cr, gr,
                   params, logs, lr, cl>>

CalcInfo ==
    /\ ls.pc = "idle"
    /\ \E id \in JobIds :
         LET r == calc_info(jobs, id)
         IN  ls' = [IdleLs EXCEPT !.pc = "done", !.op = "calc_info",
                       !.id = id,
                       !.status = r.status, !.raised = r.raised,
                       !.body = r.body]
    /\ UNCHANGED <<jobs, outputs, tasks, dirs, nextDir, rc, cr, gr,
                   params, logs, lr, cl>>

ListReturn ==
    /\ ls.pc = "done"
    /\ ls' = IdleLs
    /\ UNCHANGED <<jobs, outputs, tasks, dirs, nextDir, rc, cr, gr,
                   params, logs, lr, cl>>

-----------------------------------------------------------------------------
(* The specifications *)

\* no read-only request is in flight and the tables they read are empty
ReadersIdle ==
    /\ params = <<>>
    /\ logs = <<>>
    /\ lr = IdleLr
    /\ cl = IdleCl
    /\ ls = IdleLs

\* the server has just started: an empty store and an empty queue
Init ==
    /\ jobs = <<>>
    /\ outputs = <<>>
    /\ tasks = <<>>
    /\ dirs = {}
    /\ nextDir = 1
    /\ rc = IdleRc
    /\ cr = IdleCr
    /\ gr = IdleGr
    /\ ReadersIdle

\* n jobs have been submitted from n uploads and wait in the queue
Submitted(n) ==
    /\ jobs = [i \in 1..n |-> [status |-> "pending", relevant |-> TRUE]]
    /\ outputs = <<>>
    /\ tasks = [i \in 1..n |-> [job |-> i, temp_dir |-> i, state |-> "queued"]]
    /\ dirs = 1..n
    /\ nextDir = n + 1
    /\ rc = IdleRc
    /\ cr = IdleCr
    /\ gr = IdleGr
    /\ ReadersIdle

InitSubmitted == \E n \in 1..MaxJobs : Submitted(n)

\* submissions and the worker pool
NextSubmit ==
    \/ RunCalcStage
    \/ RunCalcSubmit
    \/ RunCalcRespond
    \/ RunCalcReturn
    \/ WorkerStart
    \/ WorkerFinish

SpecSubmit == Init /\ [][NextSubmit]_vars

\* removals and the worker pool
NextRemove ==
    \/ CalcRemoveRead
    \/ CalcRemoveSave
    \/ CalcRemoveReturn
    \/ WorkerStart
    \/ WorkerFinish

SpecRemove == InitSubmitted /\ [][NextRemove]_vars

\* exports, the worker pool and the engine
NextExport ==
    \/ GetResult
    \/ GetResultReturn
    \/ WorkerStart
    \/ EngineAddOutput
    \/ WorkerFinish

SpecExport == InitSubmitted /\ [][NextExport]_vars

\* the log requests, a client paging through a log, and the engine logging
NextLog ==
    \/ EngineLogProgress
    \/ GetLogSlice
    \/ GetLogSize
    \/ LogReturn
    \/ ClientFirst
    \/ ClientSecond
    \/ ClientWhole
    \/ ClientDone

SpecLog == InitSubmitted /\ [][NextLog]_vars

\* the traceback requests and the engine logging
NextTraceback ==
    \/ EngineLogProgress
    \/ EngineLogCritical
    \/ GetTraceback
    \/ LogReturn

SpecTraceback == InitSubmitted /\ [][NextTraceback]_vars

\* up to MaxJobs jobs of any kind, their descriptions saved in any order
InitList ==
    /\ \E n \in 0..MaxJobs :
         /\ jobs \in [1..n -> JobRows]
         /\ params \in {[k \in 1..n |-> [job |-> p[k], value |-> p[k]]] :
                           p \in Perms([i \in 1..n |-> i])}
    /\ outputs = <<>>
    /\ tasks = <<>>
    /\ dirs = {}
    /\ nextDir = 1
    /\ rc = IdleRc
    /\ cr = IdleCr
    /\ gr = IdleGr
    /\ logs = <<>>
    /\ lr = IdleLr
    /\ cl = IdleCl
    /\ ls = IdleLs

\* the listing and the job views
NextList ==
    \/ CalcList
    \/ CalcById
    \/ CalcInfo
    \/ ListReturn

SpecList == InitList /\ [][NextList]_vars

TypeOK ==
    /\ nextDir \in 1..(MaxDirs + 1)
    /\ dirs \subseteq 1..MaxDirs
    /\ Len(jobs) <= MaxJobs
    /\ Len(tasks) <= Len(jobs)
    /\ Len(outputs) <= MaxOutputs

-----------------------------------------------------------------------------
(* Claims *)

\* C1: whenever get_result has created a temporary directory, that directory
\* no longer exists once get_result has returned or raised.
C1_WorkspaceDeleted ==
    (gr.pc = "done" /\ gr.tmpdir # 0) => gr.tmpdir \notin dirs

\* C2: a 200 response of run_calc reports the status the loader left the job
\* in, pending or executing, and never complete.
C2_StatusAsLoaded ==
    (rc.pc = "done" /\ rc.status = 200) =>
        rc.body_status \in {"pending", "executing"}

\* C3: the stored status of a job never moves back to an earlier status.
C3_StatusNeverRegresses ==
    [][\A j \in DOMAIN jobs :
          j \in DOMAIN jobs' => Rank(jobs'[j].status) >= Rank(jobs[j].status)]_vars

\* the tasks enqueued since the run_calc request in flight began
NewTasks == {i \in DOMAIN tasks : i > rc.tasks0}

\* C4: run_calc answers 200 exactly when one task for the newly created job
\* has been enqueued, answers 500 only when none has been, and its response
\* never waits for the task: it can respond whatever the task's state.
C4_EnqueuedIffOk ==
    /\ rc.pc = "done" =>
         /\ rc.status \in {200, 500}
         /\ rc.status = 200 <=>
              /\ Cardinality(NewTasks) = 1
              /\ rc.job = Len(jobs)
              /\ rc.job > rc.jobs0
              /\ \A i \in NewTasks : tasks[i].job = rc.job
         /\ rc.status = 500 => NewTasks = {}
    /\ rc.pc = "submitted" => ENABLED RunCalcRespond

C4_Witness ==
    /\ rc.pc = "done" /\ rc.status = 200
    /\ \E i \in NewTasks : tasks[i].job = rc.job /\ tasks[i].state = "queued"

\* the candidate the priority order selects among the uploaded names
ByPriority(cands, names) ==
    IF cands[1] \in names THEN cands[1] ELSE cands[2]

\* C5: the job file handed to the loader is the first candidate whenever it
\* was uploaded, and the fallback job.ini only otherwise, in every upload order.
C5_CandidatePriority ==
    (rc.pc \in {"staged", "submitted", "done"} /\ rc.staged = "ok") =>
        rc.inifiles[1].name = ByPriority(rc.candidates, Range(rc.files))

\* C6 as stated: without dload, the disposition is attachment only for an
\* export_type other than the default xml, and inline when export_type is
\* omitted or is xml.
C6_Original ==
    (gr.pc = "done" /\ gr.status = 200) =>
        /\ gr.dload = "true" => gr.disposition = "attachment"
        /\ gr.dload \notin {None, "true"} => gr.disposition = "inline"
        /\ (gr.dload = None /\ gr.etype \in {None, DEFAULT_EXPORT_TYPE}) =>
               gr.disposition = "inline"
        /\ (gr.dload = None /\ gr.etype \notin {None, "", DEFAULT_EXPORT_TYPE}) =>
               gr.disposition = "attachment"

\* C6 amended: dload = "true" gives attachment, any other dload gives inline,
\* and without dload the disposition is attachment whenever an export_type
\* parameter was sent, whatever its value, and inline only when it was omitted.
C6_Disposition ==
    (gr.pc = "done" /\ gr.status = 200) =>
        gr.disposition =
            (IF gr.dload = "true" THEN "attachment"
             ELSE IF gr.dload # None THEN "inline"
             ELSE IF gr.etype # None THEN "attachment"
             ELSE "inline")

C6_Witness ==
    /\ gr.pc = "done" /\ gr.status = 200
    /\ gr.dload = None /\ gr.etype = DEFAULT_EXPORT_TYPE
    /\ gr.disposition = "attachment"

\* C7: get_result answers 404 when the result does not exist or its job is
\* not complete, without creating a directory or calling the exporter.
C7_IncompleteNotFound ==
    (gr.pc = "done" /\ (~gr.output_found \/ gr.job_status # "complete")) =>
        /\ gr.status = 404
        /\ ~gr.raised
        /\ gr.tmpdir = 0
        /\ nextDir = gr.nextDir0
        /\ ~gr.export_called
        /\ gr.body = "none"

C7_Witness ==
    /\ gr.pc = "done" /\ gr.status = 404
    /\ gr.output_found /\ gr.job_status = "executing"

\* e is among the events, and before some raise
BeforeRaise(e) ==
    \E i, j \in DOMAIN rc.events :
        i < j /\ rc.events[i] = e /\ rc.events[j].ev = "raise"

\* C8: when the loader fails, update_calculation is called with status failed
\* (and the callback URL, if any, notified) before the error is raised,
\* run_calc answers 500 with the lines of the error, and nothing is enqueued.
C8_LoaderFailure ==
    (rc.pc = "done" /\ rc.loader = "raised") =>
        /\ BeforeRaise([ev |-> "update_calculation", url |-> rc.callback_url,
                        status |-> "failed"])
        /\ rc.callback_url # None =>
             BeforeRaise([ev |-> "callback", url |-> rc.callback_url,
                          status |-> "failed"])
        /\ rc.status = 500
        /\ rc.body_kind = "exc_lines"
        /\ NewTasks = {}
        /\ \A i \in DOMAIN rc.events : rc.events[i].ev # "executor.submit"

C8_Witness ==
    /\ rc.pc = "done" /\ rc.loader = "raised" /\ rc.callback_url # None
    /\ rc.status = 500

\* C9: when the staging fails, run_calc answers 500 with the lines of the
\* error, update_calculation has been called with status failed and the
\* callback URL (if any) notified of the failure, and no job was created and
\* no task enqueued.
C9_StagingFailure ==
    (rc.pc = "done" /\ rc.staged = "raised") =>
        /\ rc.status = 500
        /\ rc.body_kind = "einfo_lines"
        /\ rc.events # <<>>
        /\ rc.events[1] = [ev |-> "update_calculation", url |-> rc.callback_url,
                           status |-> "failed"]
        /\ rc.callback_url # None =>
             \E i \in DOMAIN rc.events :
                 rc.events[i] = [ev |-> "callback", url |-> rc.callback_url,
                                 status |-> "failed"]
        /\ Len(jobs) = rc.jobs0
        /\ rc.job = 0
        /\ NewTasks = {}

C9_Witness ==
    /\ rc.pc = "done" /\ rc.staged = "raised" /\ rc.callback_url # None
    /\ rc.created # {}

\* C10: when the staging returns no candidate file, run_calc answers 500 with
\* one message naming the candidates, notifies no callback, creates no job and
\* enqueues no task.
C10_NoCandidates ==
    (rc.pc = "done" /\ rc.staged = "empty") =>
        /\ rc.status = 500
        /\ rc.body_kind = "no_file_msg"
        /\ rc.body_candidates = rc.candidates
        /\ rc.body_candidates # <<>>
        /\ rc.events = <<>>
        /\ Len(jobs) = rc.jobs0
        /\ rc.job = 0
        /\ NewTasks = {}

C10_Witness ==
    /\ rc.pc = "done" /\ rc.staged = "empty" /\ rc.callback_url # None
    /\ rc.files # <<>>

\* C11: for a log with at least 2n rows, the rows 0..n followed by the rows
\* n..2n are the rows 0..2n, also when rows are appended between the requests.
C11_SliceConcat ==
    cl.pc = "whole" => cl.r1 \o cl.r2 = cl.r3

C11_Witness ==
    /\ cl.pc = "whole" /\ cl.n >= 1
    /\ Len(cl.r3) = 2 * cl.n
    /\ Len(logs) > cl.len0
    /\ \E k \in DOMAIN logs : logs[k].job # cl.calc_id

\* C12: get_log_slice and get_log_size answer 404 when the job does not
\* exist and 200 when it does.
C12_LogNotFound ==
    (lr.pc = "done" /\ lr.op \in {"get_log_slice", "get_log_size"}) =>
        lr.status = (IF lr.job_exists THEN 200 ELSE 404)

\* C13: get_traceback answers 404, and no error escapes, when the job does not
\* exist or has no CRITICAL row, and 200 with the lines of the message when it
\* has one.
C13_TracebackNotFound ==
    (lr.pc = "done" /\ lr.op = "get_traceback") =>
        /\ ~lr.job_exists => (lr.status = 404 /\ ~lr.raised)
        /\ (lr.job_exists /\ lr.ncritical = 0) => (lr.status = 404 /\ ~lr.raised)
        /\ (lr.job_exists /\ lr.ncritical = 1) => (lr.status = 200 /\ ~lr.raised)

\* C14: the listing holds only jobs of the requesting user that satisfy every
\* filter sent, in descending order of job id.
C14_ListingOrder ==
    (ls.pc = "done" /\ ls.op = "calc") =>
        /\ ls.status = 200
        /\ \A i \in DOMAIN ls.body :
             /\ jobs[ls.body[i].id].user_name = ls.user_name
             /\ ls.get.job_type # None => ls.body[i].job_type = ls.get.job_type
             /\ ls.get.is_running # None =>
                  ls.body[i].is_running = (ls.get.is_running = "true")
             /\ ls.get.relevant # None =>
                  jobs[ls.body[i].id].relevant = (ls.get.relevant = "true")
        /\ \A i, j \in DOMAIN ls.body : i < j => ls.body[i].id > ls.body[j].id

\* C15: a step of calc_remove never deletes a job record and never touches the
\* queue; for an absent id it answers 404 and leaves the store as it is; for an
\* existing job it ends with 200, an empty body and relevant false, or, when
\* the store fails, with 500 and the lines of the traceback.
C15_RemoveFrame ==
    [][cr' # cr =>
         /\ DOMAIN jobs' = DOMAIN jobs
         /\ tasks' = tasks
         /\ outputs' = outputs
         /\ dirs' = dirs
         /\ cr.pc = "idle" =>
              IF cr'.calc_id \in DOMAIN jobs
              THEN cr'.pc = "read" /\ cr'.status = 0 /\ jobs' = jobs
              ELSE cr'.pc = "done" /\ cr'.status = 404 /\ jobs' = jobs
         /\ cr.pc = "read" =>
              /\ cr'.pc = "done"
              /\ \/ /\ cr'.status = 200
                    /\ cr'.body = "[]"
                    /\ ~jobs'[cr.calc_id].relevant
                 \/ /\ cr'.status = 500
                    /\ cr'.body = "traceback_lines"
                    /\ jobs' = jobs]_vars

C15_Witness ==
    /\ cr.pc = "done" /\ cr.status = 200
    /\ ~jobs[cr.calc_id].relevant
    /\ \E i \in DOMAIN tasks :
         tasks[i].job = cr.calc_id /\ tasks[i].state = "running"

\* C16: a request for one job answers 404, and never fails with an unhandled
\* error, when the job does not exist, and 200 when it exists.
C16_JobViewNotFound ==
    (ls.pc = "done" /\ ls.op \in {"calc_info", "calc_by_id"}) =>
        /\ ~ls.raised
        /\ ls.id \notin DOMAIN jobs => ls.status = 404
        /\ (ls.id \in DOMAIN jobs /\ ls.op = "calc_info") => ls.status = 200

\* C17: when the exporter returns None for a result of a complete job,
\* get_result answers 404 with a message naming the export type asked for
\* (xml when none was) and the output type of the result, and no content.
C17_UnsupportedFormat ==
    (gr.pc = "done" /\ gr.export_called /\ gr.exporter = "none") =>
        /\ gr.job_status = "complete"
        /\ gr.status = 404
        /\ gr.body = "not_supported_msg"
        /\ gr.msg_export_type =
               (IF gr.etype \in {None, ""} THEN DEFAULT_EXPORT_TYPE ELSE gr.etype)
        /\ gr.msg_output_type = outputs[gr.result_id].output_type
        /\ gr.content_type = None
        /\ gr.disposition = "none"

C17_Witness ==
    /\ gr.pc = "done" /\ gr.export_called /\ gr.exporter = "none"
    /\ gr.etype = "nosuch" /\ gr.msg_export_type = "nosuch"
    /\ gr.msg_output_type = "hazard_curve"

\* C18: once run_calc has returned, every directory made for the submission
\* either belongs to exactly one enqueued task or no longer exists.
C18_NoOrphanWorkspace ==
    rc.pc = "done" =>
        \A d \in rc.created :
            \/ d \notin dirs
            \/ Cardinality({i \in DOMAIN tasks : tasks[i].temp_dir = d}) = 1

\* C19: a submission whose staging succeeds has made exactly one directory,
\* with or without an archive, and that directory is the one handed on.
C19_OneWorkspace ==
    (rc.pc # "idle" /\ rc.staged = "ok") =>
        /\ Cardinality(rc.created) = 1
        /\ rc.temp_dir \in rc.created

=============================================================================
